---------------------------- MODULE Spec2Model ----------------------------
(***************************************************************************)
(* A model of goa's error model (src/error.go) and of the design           *)
(* validator (src/design/validation.go).                                   *)
(*                                                                         *)
(* Go values are modelled as records.  Strings built with fmt.Sprintf are  *)
(* sequences of string tokens (the format's literal parts and the          *)
(* arguments), so that two messages are equal exactly when they are built  *)
(* from the same format and the same arguments.  A Go panic is an outcome  *)
(* of its own: every result carries a "panic" flag.                        *)
(***************************************************************************)
EXTENDS Integers, Sequences, FiniteSets, TLC

VARIABLES
    api,      \* validation.go: the design under validation (the API root)
    res,      \* validation.go: the last Validate call and what it returned
    verdicts, \* validation.go: for each media type, its Validate calls so far
    vA,      \* validation.go: three ValidationErrors values, built with Add
    vB,
    vC,
    mleft,   \* validation.go: vA after vA.Merge(vB); vA.Merge(vC)
    mright,  \* validation.go: vA after vB.Merge(vC); vA.Merge(vB)
    merr,    \* error.go: the accumulated error value threaded through the helpers
    hist,    \* error.go: the failures handed to ReportError so far, in call order
    calls,   \* error.go: number of ReportError calls made
    out      \* error.go: outcome of the last Title() / Error() call

errVars == <<merr, hist, calls, out>>

verrVars == <<vA, vB, vC, mleft, mright>>

graphVars == <<api, res, verdicts>>

vars == <<merr, hist, calls, out, vA, vB, vC, mleft, mright, api, res, verdicts>>

-----------------------------------------------------------------------------
(* Bounds *)

\* Number of ReportError calls one caller makes.
MaxCalls == 2

\* Number of entries added to the validation error sets that are merged.
MaxEntries == 4

\* Number of Validate calls made on one media type.
MaxRuns == 2

\* Number of responses of an action.
MaxResponses == 3

-----------------------------------------------------------------------------
(* src/error.go: the taxonomy *)

ErrInvalidParamType == 1
ErrMissingParam == 2
ErrInvalidAttributeType == 3
ErrMissingAttribute == 4
ErrInvalidEnumValue == 5
ErrMissingHeader == 6
ErrInvalidFormat == 7
ErrInvalidPattern == 8
ErrInvalidRange == 9
ErrInvalidLength == 10

\* The ten kinds of the const block.
Taxonomy ==
    {ErrInvalidParamType, ErrMissingParam, ErrInvalidAttributeType,
     ErrMissingAttribute, ErrInvalidEnumValue, ErrMissingHeader,
     ErrInvalidFormat, ErrInvalidPattern, ErrInvalidRange, ErrInvalidLength}

\* ErrorKind is an int: the kinds a caller can pass, the taxonomy and its two
\* neighbours.
ErrorKind == 0 .. 11

\* The outcome of a call that returns a string: the string, or a panic.
Returned(text) == [panic |-> FALSE, text |-> text]

Panicked(why) == [panic |-> TRUE, text |-> <<why>>]

\* func (k ErrorKind) Title() string
Title(k) ==
    CASE k = ErrInvalidParamType -> Returned(<<"invalid parameter value">>)
      [] k = ErrMissingParam -> Returned(<<"missing required parameter">>)
      [] k = ErrInvalidAttributeType -> Returned(<<"invalid attribute type">>)
      [] k = ErrMissingAttribute -> Returned(<<"missing required attribute">>)
      [] k = ErrMissingHeader -> Returned(<<"missing required HTTP header">>)
      [] k = ErrInvalidEnumValue -> Returned(<<"invalid value">>)
      [] k = ErrInvalidRange -> Returned(<<"invalid value range">>)
      [] k = ErrInvalidLength -> Returned(<<"invalid value length">>)
      [] OTHER -> Panicked("unknown kind")

-----------------------------------------------------------------------------
(* src/error.go: error values *)

\* The nil error.
NilErr == [t |-> "nil"]

\* &TypedError{Kind: k, Mesg: m}
TypedError(k, m) == [t |-> "typed", Kind |-> k, Mesg |-> m]

\* Any other error value (errors.New(m)): it has a message and no kind.
OpaqueError(m) == [t |-> "opaque", Mesg |-> m]

\* MultiError(elems)
MultiError(elems) == [t |-> "multi", elems |-> elems]

\* fmt's %#v of a string: the string in double quotes.
GoQuote(s) == <<"\"", s, "\"">>

\* func (t *TypedError) Error() string
TypedErrorError(e) ==
    LET title == Title(e.Kind)
    IN  IF title.panic
        THEN title
        ELSE Returned(<<"{\"kind\":\"">> \o title.text \o <<"\",\"msg\":\"">>
                      \o e.Mesg \o <<"\"}">>)

RECURSIVE ErrorString(_)
RECURSIVE MultiErrorLoop(_, _, _)

\* The loop of MultiError.Error over m[i..], appending to buffer.
MultiErrorLoop(m, i, buffer) ==
    IF i > Len(m)
    THEN Returned(buffer \o <<"]">>)
    ELSE LET txt == ErrorString(m[i])
         IN  IF txt.panic
             THEN txt
             ELSE LET elem == IF m[i].t = "typed"
                              THEN txt.text
                              ELSE <<"\"">> \o txt.text \o <<"\"">>
                      sep == IF i < Len(m) THEN <<",">> ELSE <<>>
                  IN  MultiErrorLoop(m, i + 1, buffer \o elem \o sep)

\* err.Error() by the dynamic type of err; calling it on a nil error is a nil
\* dereference.
ErrorString(e) ==
    CASE e.t = "typed" -> TypedErrorError(e)
      [] e.t = "opaque" -> Returned(e.Mesg)
      [] e.t = "multi" -> MultiErrorLoop(e.elems, 1, <<"[">>)
      [] OTHER -> Panicked("nil pointer dereference")

\* A mutant of ReportError: the accumulator is wrapped, not extended.
ReportErrorNesting(err, err2) ==
    IF err.t = "nil" THEN MultiError(<<err2>>) ELSE MultiError(<<err, err2>>)

\* func ReportError(err error, err2 error) error
ReportError(err, err2) ==
    IF err.t = "nil"
    THEN MultiError(<<err2>>)
    ELSE IF err.t = "multi"
         THEN MultiError(Append(err.elems, err2))
         ELSE MultiError(<<err, err2>>)

-----------------------------------------------------------------------------
(* src/error.go: the construction helpers.  Each builds the typed error    *)
(* that it then hands to ReportError.                                      *)

\* Names, values and descriptors the generated code passes to the helpers.
ArgNames == {"page"}

ArgValues == {"abc"}

Bool == {TRUE, FALSE}

InvalidParamTypeTerr(name, val, expected) ==
    TypedError(ErrInvalidParamType,
               <<"invalid value ">> \o GoQuote(val) \o <<" for parameter ">>
               \o GoQuote(name) \o <<", must be a ", expected>>)

MissingParamTerr(name) ==
    TypedError(ErrMissingParam, <<"missing required parameter ">> \o GoQuote(name))

InvalidAttributeTypeTerr(ctx, val, expected) ==
    TypedError(ErrInvalidAttributeType,
               <<"type of ", ctx, " must be ", expected, " but got value ">>
               \o GoQuote(val))

MissingAttributeTerr(ctx, name) ==
    TypedError(ErrMissingAttribute,
               <<"attribute ">> \o GoQuote(name) \o <<" of ", ctx,
               " is missing and required">>)

MissingHeaderTerr(name) ==
    TypedError(ErrMissingHeader, <<"missing required HTTP header ">> \o GoQuote(name))

InvalidEnumValueTerr(ctx, val, allowed) ==
    TypedError(ErrInvalidEnumValue,
               <<"value of ", ctx, " must be one of ">> \o GoQuote(allowed)
               \o <<" but got value ">> \o GoQuote(val))

InvalidFormatTerr(ctx, target, format, formatError) ==
    TypedError(ErrInvalidFormat,
               <<ctx, " must be formatted as a ", format, " but got value ">>
               \o GoQuote(target) \o <<", ", formatError>>)

InvalidPatternTerr(ctx, target, pattern) ==
    TypedError(ErrInvalidPattern,
               <<ctx, " must be match the regexp ">> \o GoQuote(pattern)
               \o <<" but got value ">> \o GoQuote(target))

Comp(min) == IF min THEN "greater or equal to" ELSE "lesser or equal to"

InvalidRangeTerr(ctx, target, value, min) ==
    TypedError(ErrInvalidRange,
               <<ctx, " must be ", Comp(min), " than ", value, " but got value ">>
               \o GoQuote(target))

\* InvalidLengthError builds its typed error with Kind: ErrInvalidRange.
InvalidLengthTerr(ctx, target, value, min) ==
    TypedError(ErrInvalidRange,
               <<"length of ", ctx, " must be ", Comp(min), " than ", value,
               " but got value ">> \o GoQuote(target))

\* The typed errors the ten helpers build from the arguments above.
HelperErrors ==
    {InvalidParamTypeTerr(n, v, "integer") : n \in ArgNames, v \in ArgValues}
    \cup {MissingParamTerr(n) : n \in ArgNames}
    \cup {InvalidAttributeTypeTerr("body", v, "integer") : v \in ArgValues}
    \cup {MissingAttributeTerr("body", n) : n \in ArgNames}
    \cup {MissingHeaderTerr(n) : n \in ArgNames}
    \cup {InvalidEnumValueTerr("body", v, "xyz") : v \in ArgValues}
    \cup {InvalidFormatTerr("body", v, "date-time", "parse error") : v \in ArgValues}
    \cup {InvalidPatternTerr("body", v, "^a+$") : v \in ArgValues}
    \cup {InvalidRangeTerr("body", v, "1", m) : v \in ArgValues, m \in Bool}
    \cup {InvalidLengthTerr("body", v, "1", TRUE) : v \in ArgValues}

\* Failures that are not typed errors.
OpaqueErrors == {OpaqueError(<<"boom">>)}

\* The err2 arguments of ReportError: typed or opaque, never a MultiError.
Failures == HelperErrors \cup OpaqueErrors

-----------------------------------------------------------------------------
(* The error model as a state machine: a caller threads merr through       *)
(* ReportError, looks up titles and serializes.                            *)

NoOut == [op |-> "none", panic |-> FALSE, text |-> <<>>]

\* The elements an error value stands for once coerced.
Elems(e) ==
    CASE e.t = "nil" -> <<>>
      [] e.t = "multi" -> e.elems
      [] OTHER -> <<e>>

\* The caller starts from no error, or from a single failure of its own.
ErrInit ==
    /\ merr \in {NilErr} \cup OpaqueErrors
                \cup {MissingParamTerr(n) : n \in ArgNames}
    /\ hist = Elems(merr)
    /\ calls = 0
    /\ out = NoOut

\* merr = ReportError(merr, err2), as every helper ends.
Report ==
    \E err2 \in Failures :
        /\ calls < MaxCalls
        /\ merr' = ReportError(merr, err2)
        /\ hist' = Append(hist, err2)
        /\ calls' = calls + 1
        /\ out' = NoOut

\* k.Title()
TitleLookup ==
    \E k \in ErrorKind :
        /\ out' = [op |-> "Title", kind |-> k] @@ Title(k)
        /\ UNCHANGED <<merr, hist, calls>>

\* merr.Error(), the serialization written to the response body.
Serialize ==
    /\ merr.t # "nil"
    /\ out' = [op |-> "Error"] @@ ErrorString(merr)
    /\ UNCHANGED <<merr, hist, calls>>

ErrNext ==
    \/ Report /\ UNCHANGED <<verrVars, graphVars>>
    \/ TitleLookup /\ UNCHANGED <<verrVars, graphVars>>
    \/ Serialize /\ UNCHANGED <<verrVars, graphVars>>

-----------------------------------------------------------------------------
(* src/design/validation.go: ValidationErrors                              *)

\* The nil *ValidationErrors.
NilVerr == [t |-> "nil"]

\* new(ValidationErrors)
NewVerr == [t |-> "verr", Errors |-> <<>>, Definitions |-> <<>>]

\* A mutant of Merge: the definitions appended are the target's own.
MergeOwnDefinitions(verr, err) ==
    [t |-> "verr",
     Errors |-> verr.Errors \o err.Errors,
     Definitions |-> verr.Definitions \o verr.Definitions]

\* func (verr *ValidationErrors) Merge(err *ValidationErrors): verr afterwards.
Merge(verr, err) ==
    [t |-> "verr",
     Errors |-> verr.Errors \o err.Errors,
     Definitions |-> verr.Definitions \o err.Definitions]

\* func (verr *ValidationErrors) Add(def, format, vals...): verr afterwards; msg
\* is fmt.Errorf(format, vals...).
Add(verr, def, msg) ==
    [t |-> "verr",
     Errors |-> Append(verr.Errors, msg),
     Definitions |-> Append(verr.Definitions, def)]

\* func (verr *ValidationErrors) AsError() *ValidationErrors
AsError(verr) == IF Len(verr.Errors) > 0 THEN verr ELSE NilVerr

\* The entries of a set: each failure with the definition at its index.
Entries(verr) ==
    [i \in 1 .. Len(verr.Errors) |-> <<verr.Errors[i], verr.Definitions[i]>>]

-----------------------------------------------------------------------------
(* src/design/validation.go: the values the validator walks.               *)
(*                                                                         *)
(* A definition is referred to (DSLDefinition) by its path from the API    *)
(* root, a sequence of strings; a nil parent pointer is the empty path.    *)
(* A DataType is a record tagged k: "nil" (the nil interface), "prim",     *)
(* "object" (f: field name -> attribute pointer), "array" (ElemType) or    *)
(* "media" (a *MediaTypeDefinition, by its index in the API's list).       *)

\* A nil *AttributeDefinition.
NilAtt == [nilptr |-> TRUE]

\* A nil definition pointer (Parent fields).
NilRef == <<>>

\* The nil DataType.
NilType == [k |-> "nil"]

\* The primitive string type.
String == [k |-> "prim", name |-> "string"]

Object(f) == [k |-> "object", f |-> f]

Array(elem) == [k |-> "array", ElemType |-> elem]

MediaRef(i) == [k |-> "media", id |-> i]

\* &AttributeDefinition{Type: type, Validations: validations, View: view}
Attribute(type, validations, view) ==
    [Type |-> type, Validations |-> validations, View |-> view]

\* &RequiredValidationDefinition{Names: names}
Required(names) == [Names |-> names]

\* Decimal text of the small numbers that appear in messages.
IntStr(n) ==
    CASE n = 200 -> "200"
      [] n = 404 -> "404"
      [] OTHER -> <<"0", "1", "2", "3", "4", "5", "6", "7", "8", "9">>[n + 1]

\* Every key of the maps the validator ranges over: field, view and link names.
KeyOrder == <<"", "id", "x", "default", "tiny", "owner">>

Reverse(s) == [i \in 1 .. Len(s) |-> s[Len(s) + 1 - i]]

\* Go ranges over a map in an unspecified order: a validation pass is given
\* the order in which it meets the keys, one way round or the other.
Orders == {KeyOrder, Reverse(KeyOrder)}

\* The keys of map m in the order of this pass.
KeysInOrder(m, ord) == SelectSeq(ord, LAMBDA k : k \in DOMAIN m)

\* DataType.ToObject: the type if it is an object, nil otherwise.
ToObject(type) == IF type.k = "object" THEN type ELSE NilType

\* DataType.ToArray: the type if it is an array, nil otherwise.
ToArray(type) == IF type.k = "array" THEN type ELSE NilType

\* DataType.IsArray
IsArray(type) == type.k = "array"

-----------------------------------------------------------------------------
(* The walker's accumulator: the verr of the running Validate, or the      *)
(* panic that ended it.                                                    *)

PanicVerr == [t |-> "panic"]

\* if cond { verr.Add(def, msg) }
AddIf(verr, cond, def, msg) ==
    IF verr.t = "panic" THEN verr
    ELSE IF cond THEN Add(verr, def, msg) ELSE verr

\* if err := child.Validate(); err != nil { verr.Merge(err) }
\* A panic in the child unwinds through the caller.
MergeIf(verr, err) ==
    IF verr.t = "panic" THEN verr
    ELSE IF err.t = "panic" THEN err
    ELSE IF err.t = "nil" THEN verr
    ELSE Merge(verr, err)

RECURSIVE MergeAll(_, _, _)

\* for _, c := range children { if err := c.Validate(); err != nil { verr.Merge(err) } }
\* with errs[i] the result of the i-th child's Validate.
MergeAll(verr, errs, i) ==
    IF i > Len(errs) THEN verr
    ELSE MergeAll(MergeIf(verr, errs[i]), errs, i + 1)

\* if x != nil { if err := x.Validate(...); err != nil { verr.Merge(err) } }
\* with present the test x != nil and err the result of x.Validate(...).
MergeIfPresent(verr, present, err) == IF present THEN MergeIf(verr, err) ELSE verr

\* return verr.AsError()
Finish(verr) == IF verr.t = "panic" THEN verr ELSE AsError(verr)

-----------------------------------------------------------------------------
(* AttributeDefinition.Validate *)

RECURSIVE RequiredNamesLoop(_, _, _, _, _, _)

\* for _, n := range r.Names { ... } of one Required validation
RequiredNamesLoop(names, i, verr, o, ctx, parent) ==
    IF i > Len(names) THEN verr
    ELSE RequiredNamesLoop(names, i + 1,
             AddIf(verr, names[i] \notin DOMAIN o, parent,
                   ctx \o <<"required field \"", names[i], "\" does not exist">>),
             o, ctx, parent)

RECURSIVE ValidationsLoop(_, _, _, _, _, _, _)

\* for _, v := range a.Validations { ... }
ValidationsLoop(vals, i, verr, isObject, o, ctx, parent) ==
    IF i > Len(vals) THEN verr
    ELSE LET v1 == AddIf(verr, ~isObject, parent,
                         ctx \o <<"only objects may define a \"Required\" validation">>)
             v2 == RequiredNamesLoop(vals[i].Names, 1, v1, o, ctx, parent)
         IN  ValidationsLoop(vals, i + 1, v2, isObject, o, ctx, parent)

RECURSIVE ValidateAttribute(_, _, _, _, _)

\* func (a *AttributeDefinition) Validate(ctx string, parent DSLDefinition)
\* self is the path of a itself, the parent of its fields and element type.
ValidateAttribute(a, ctx, parent, self, ord) ==
    IF a = NilAtt THEN PanicVerr
    ELSE IF a.Type = NilType
    THEN Add(NewVerr, parent, <<"attribute type is nil">>)
    ELSE LET ctx2 == IF ctx # <<>> THEN ctx \o <<" - ">> ELSE ctx
             isObject == a.Type.k = "object"
             o == IF isObject THEN a.Type.f ELSE <<>>
             v1 == ValidationsLoop(a.Validations, 1, NewVerr, isObject, o, ctx2, parent)
             keys == KeysInOrder(o, ord)
             \* the fields of an object in the order of the pass, the element
             \* type of an array, nothing otherwise
             children ==
                 IF isObject
                 THEN [i \in 1 .. Len(keys) |->
                          ValidateAttribute(o[keys[i]], <<"field ", keys[i]>>,
                                            self, self \o <<"field", keys[i]>>, ord)]
                 ELSE IF IsArray(a.Type)
                 THEN <<ValidateAttribute(ToArray(a.Type).ElemType, ctx2, self,
                                          self \o <<"elem">>, ord)>>
                 ELSE <<>>
         IN  Finish(MergeAll(v1, children, 1))

-----------------------------------------------------------------------------
(* ResponseDefinition.Validate, RouteDefinition.Validate *)

\* func (r *ResponseDefinition) Validate() *ValidationErrors
ValidateResponse(r, self, ord) ==
    LET v1 == MergeIfPresent(NewVerr, r.Headers # NilAtt,
                             ValidateAttribute(r.Headers, <<"response headers">>, self,
                                               self \o <<"headers">>, ord))
        v2 == AddIf(v1, r.Status = 0, self, <<"response status not defined">>)
    IN  Finish(v2)

\* func (r *RouteDefinition) Validate() *ValidationErrors
ValidateRoute(r, self) ==
    Finish(AddIf(NewVerr, r.Parent = NilRef, self, <<"missing route parent action">>))

\* The path of the i-th child of kind what of the definition at path self.
Child(self, what, i) == self \o <<what, IntStr(i)>>

\* The results of Validate on each of the responses of def, in order.
ResponseResults(responses, self, ord) ==
    [i \in 1 .. Len(responses) |->
        ValidateResponse(responses[i], Child(self, "response", i), ord)]

-----------------------------------------------------------------------------
(* ActionDefinition.ValidateParams, ActionDefinition.Validate *)

\* The object kind test of ValidateParams: p.Type.Kind() == ObjectKind.
IsObjectKind(type) == type.k = "object"

RECURSIVE ParamsLoop(_, _, _, _, _, _)

\* for n, p := range params { ... }
ParamsLoop(params, keys, i, verr, self, ord) ==
    IF i > Len(keys) \/ verr.t = "panic" THEN verr
    ELSE LET n == keys[i]
             p == params[n]
             v1 == IF n = ""
                   THEN Add(verr, self, <<"action has parameter with no name">>)
                   ELSE IF p = NilAtt
                   THEN Add(verr, self, <<"definition of parameter ", n, " cannot be nil">>)
                   ELSE IF p.Type = NilType
                   THEN Add(verr, self, <<"type of parameter ", n, " cannot be nil">>)
                   ELSE verr
             \* p.Type.Kind() dereferences p, and calls a method of p.Type
             v2 == IF p = NilAtt THEN PanicVerr
                   ELSE IF p.Type = NilType THEN PanicVerr
                   ELSE AddIf(v1, IsObjectKind(p.Type), self,
                              <<"parameter ", n,
                                " cannot be an object, only action payloads may be of type object">>)
             v3 == MergeIf(v2, ValidateAttribute(p, <<"parameter ", n>>, self,
                                                 self \o <<"param", n>>, ord))
         IN  ParamsLoop(params, keys, i + 1, v3, self, ord)

\* func (a *ActionDefinition) ValidateParams() *ValidationErrors
ValidateParams(a, self, ord) ==
    IF a.Params = NilAtt THEN NilVerr
    ELSE LET ok == a.Params.Type.k = "object"
             params == IF ok THEN a.Params.Type.f ELSE <<>>
             v1 == AddIf(NewVerr, ~ok, self,
                         <<"\"Params\" field of action is not an object">>)
             v2 == ParamsLoop(params, KeysInOrder(params, ord), 1, v1, self, ord)
             v3 == MergeAll(v2, ResponseResults(a.Responses, self, ord), 1)
         IN  Finish(v3)

\* A mutant of DuplicateStatus: each unordered pair is met once.
DuplicateStatusOnce(responses, i, j) ==
    i < j /\ responses[i].Status = responses[j].Status

\* The test of the duplicate check: i != j && r.Status == r2.Status
DuplicateStatus(responses, i, j) ==
    i # j /\ responses[i].Status = responses[j].Status

\* The failure of the duplicate check.
DuplicateMsg(status) ==
    <<"Multiple response definitions with status code ", IntStr(status)>>

RECURSIVE DuplicatesLoop(_, _, _, _, _)

\* for j, r2 := range a.Responses { ... } for the i-th response
DuplicatesLoop(responses, i, j, verr, self) ==
    IF j > Len(responses) THEN verr
    ELSE DuplicatesLoop(responses, i, j + 1,
             AddIf(verr, DuplicateStatus(responses, i, j), Child(self, "response", i),
                   DuplicateMsg(responses[i].Status)),
             self)

RECURSIVE ResponsesLoop(_, _, _, _, _)

\* for i, r := range a.Responses { ... }
ResponsesLoop(responses, i, verr, self, ord) ==
    IF i > Len(responses) \/ verr.t = "panic" THEN verr
    ELSE LET v1 == DuplicatesLoop(responses, i, 1, verr, self)
             v2 == MergeIf(v1, ValidateResponse(responses[i],
                                                Child(self, "response", i), ord))
         IN  ResponsesLoop(responses, i + 1, v2, self, ord)

\* func (a *ActionDefinition) Validate() *ValidationErrors
ValidateAction(a, self, ord) ==
    LET v1 == AddIf(NewVerr, a.Name = "", self, <<"Action name cannot be empty">>)
        v2 == AddIf(v1, Len(a.Routes) = 0, self, <<"No route defined for action">>)
        v3 == ResponsesLoop(a.Responses, 1, v2, self, ord)
        v4 == MergeIf(v3, ValidateParams(a, self, ord))
        v5 == MergeIfPresent(v4, a.Payload # NilAtt,
                             ValidateAttribute(a.Payload, <<"action payload">>, self,
                                               self \o <<"payload">>, ord))
        v6 == AddIf(v5, a.Parent = NilRef, self, <<"missing parent resource">>)
    IN  Finish(v6)

-----------------------------------------------------------------------------
(* ResourceDefinition.Validate *)

\* A base path is a sequence of segments, a literal or a variable: the path
\* /things/{id} is <<Lit("things"), Var("id")>>.
Lit(s) == [var |-> FALSE, s |-> s]

Var(s) == [var |-> TRUE, s |-> s]

\* The text of a variable segment.
Braced(s) == CASE s = "id" -> "{id}" [] s = "x" -> "{x}" [] OTHER -> "{}"

\* The text of a path, segment by segment.
PathText(path) ==
    [i \in 1 .. Len(path) |-> IF path[i].var THEN Braced(path[i].s) ELSE path[i].s]

\* ParamsRegex.FindAllStringSubmatch(path, -1): one match for each variable of
\* the path, in order; a match is the matched text followed by its capture,
\* the variable's name.
FindAllStringSubmatch(path) ==
    LET at == SelectSeq([i \in 1 .. Len(path) |-> i], LAMBDA i : path[i].var)
    IN  [m \in 1 .. Len(at) |-> <<Braced(path[at[m]].s), path[at[m]].s>>]

\* strings.Join([]string{strings.Join(vars[:len(vars)-1], ", "), vars[len(vars)-1]}, " and ")
JoinVars(pvars) ==
    LET head == SubSeq(pvars, 1, Len(pvars) - 1)
        commas == [i \in 1 .. (2 * Len(head) - 1) |->
                      IF i % 2 = 1 THEN head[(i + 1) \div 2] ELSE ", "]
    IN  (IF Len(head) = 0 THEN <<"">> ELSE commas) \o <<" and ", pvars[Len(pvars)]>>

\* The failure of a base path variable that names no base parameter.
UnmatchedMsg(v, path) ==
    <<"Variable ", v, " from base path ">> \o PathText(path)
    \o <<" does not match any parameter from BaseParams">>

RECURSIVE VarsLoop(_, _, _, _, _)

\* for _, v := range vars { ... }
VarsLoop(pvars, i, verr, r, self) ==
    IF i > Len(pvars) THEN verr
    ELSE VarsLoop(pvars, i + 1,
             AddIf(verr, pvars[i] \notin DOMAIN r.BaseParams.Type.f, self,
                   UnmatchedMsg(pvars[i], r.BasePath)),
             r, self)

\* The failure of base parameters no variable of the base path uses.
UnusedMsg == <<"BasePath does not use variables defines in BaseParams">>

\* A mutant of UnusedBaseParams: one failure for each unused field.
UnusedBaseParamsEach(verr, baseParams, self) ==
    LET keys == KeysInOrder(baseParams, KeyOrder)
    IN  MergeAll(verr, [i \in 1 .. Len(keys) |-> Add(NewVerr, self, UnusedMsg)], 1)

\* The else branch of the base path check: no variables matched.
UnusedBaseParams(verr, baseParams, self) ==
    AddIf(verr, Cardinality(DOMAIN baseParams) > 0, self, UnusedMsg)

\* if r.BaseParams != nil { ... }
BaseParamsCheck(verr, r, self) ==
    IF verr.t = "panic" \/ r.BaseParams = NilAtt THEN verr
    ELSE IF r.BaseParams.Type.k # "object"
    THEN Add(verr, self, <<"invalid type for BaseParams, must be an Object",
               "%!(EXTRA *design.ResourceDefinition)">>)
    ELSE LET baseParams == r.BaseParams.Type.f
             vs == FindAllStringSubmatch(r.BasePath)
         IN  IF Len(vs) > 1
             THEN LET pvars == vs[2]
                      v1 == AddIf(verr, Len(pvars) # Cardinality(DOMAIN baseParams), self,
                                  <<"BasePath defines parameters ">> \o JoinVars(pvars)
                                  \o <<" but BaseParams has ",
                                       IntStr(Cardinality(DOMAIN baseParams)), " elements">>)
                  IN  VarsLoop(pvars, 1, v1, r, self)
             ELSE UnusedBaseParams(verr, baseParams, self)

\* func (r *ResourceDefinition) Validate() *ValidationErrors
\* registry is Design.Resources, the names of the API's resources.
ValidateResource(r, self, registry, ord) ==
    LET v1 == AddIf(NewVerr, r.Name = "", self, <<"Resource name cannot be empty">>)
        v2 == MergeAll(v1, [i \in 1 .. Len(r.Actions) |->
                               ValidateAction(r.Actions[i], Child(self, "action", i), ord)], 1)
        found == \E i \in 1 .. Len(r.Actions) : r.Actions[i].Name = r.CanonicalActionName
        v3 == AddIf(v2, r.CanonicalActionName # "" /\ ~found, self,
                    <<"unknown canonical action \"", r.CanonicalActionName, "\"">>)
        v4 == BaseParamsCheck(v3, r, self)
        v5 == AddIf(v4, r.ParentName # "" /\ r.ParentName \notin registry, self,
                    <<"Parent resource named ">> \o GoQuote(r.ParentName) \o <<" not found">>)
        v6 == MergeAll(v5, ResponseResults(r.Responses, self, ord), 1)
        v7 == MergeIfPresent(v6, r.Params # NilAtt,
                             ValidateAttribute(r.Params, <<"resource parameters">>, self,
                                               self \o <<"params">>, ord))
    IN  Finish(v7)

-----------------------------------------------------------------------------
(* UserTypeDefinition.Validate, ViewDefinition.Validate,                   *)
(* LinkDefinition.Validate, MediaTypeDefinition.Validate                   *)

\* func (u *UserTypeDefinition) Validate(ctx string, parent DSLDefinition)
\* u.att is the embedded *AttributeDefinition.
ValidateUserType(u, ctx, parent, self, ord) ==
    LET v1 == AddIf(NewVerr, u.TypeName = "", parent,
                    ctx \o <<" - ", "User type must have a name">>)
        v2 == MergeIf(v1, ValidateAttribute(u.att, ctx, parent, self \o <<"attribute">>, ord))
    IN  Finish(v2)

\* func (v *ViewDefinition) Validate() *ValidationErrors
ValidateView(v, self, ord) ==
    LET v1 == AddIf(NewVerr, v.Parent = NilRef, self, <<"View must have a parent media type">>)
        v2 == MergeIf(v1, ValidateAttribute(v.att, <<>>, self, self \o <<"attribute">>, ord))
    IN  Finish(v2)

\* The second half of LinkDefinition.Validate: the attribute the link names.
LinkTarget(verr, l, parentObj, mts, self) ==
    IF parentObj = NilType \/ l.Name \notin DOMAIN parentObj.f
    THEN Add(verr, self,
             <<"Link name must match one of the parent media type attribute names">>)
    ELSE LET att == parentObj.f[l.Name]
         IN  IF att = NilAtt THEN PanicVerr  \* att.Type on a nil att
             ELSE LET ok == att.Type.k = "media"
                      v1 == AddIf(verr, ~ok, self, <<"attribute type must be a media type">>)
                  IN  IF ~ok THEN PanicVerr  \* mediaType.Views on the nil mediaType
                      ELSE LET mediaType == mts[att.Type.id]
                           IN  AddIf(v1, l.View \notin DOMAIN mediaType.Views, self,
                                     <<"view ">> \o GoQuote(l.View)
                                     \o <<" does not exist on target media type ">>
                                     \o GoQuote(mediaType.Identifier))

\* func (l *LinkDefinition) Validate() *ValidationErrors
\* l.Parent is the index of the parent media type in mts, 0 for nil.
ValidateLink(l, mts, self) ==
    LET v1 == AddIf(NewVerr, l.Name = "", self, <<"Links must have a name">>)
        v2 == AddIf(v1, l.Parent = 0, self, <<"Link must have a parent media type">>)
    IN  IF l.Parent = 0 THEN PanicVerr  \* l.Parent.ToObject() on the nil parent
        ELSE IF mts[l.Parent].Type = NilType THEN PanicVerr  \* ToObject of a nil Type
        ELSE LET parentObj == ToObject(mts[l.Parent].Type)
                 v3 == AddIf(v2, parentObj = NilType, self,
                             <<"Link parent media type must be an Object">>)
             IN  Finish(LinkTarget(v3, l, parentObj, mts, self))

\* mime.ParseMediaType(id) returns no error.
ParsesAsMediaType(id) == id \in {"application/json", "plain/text"}

\* A mutant of DefaultFilled: the type is set to String whatever it was.
DefaultFilledAlways(m) ==
    [m EXCEPT !.Identifier = IF @ = "" THEN "plain/text" ELSE @,
              !.Type = String]

\* The media type after the two defaults of MediaTypeDefinition.Validate:
\* m.Identifier = "plain/text" if it is empty, m.Type = String if it is nil.
DefaultFilled(m) ==
    [m EXCEPT !.Identifier = IF @ = "" THEN "plain/text" ELSE @,
              !.Type = IF @ = NilType THEN String ELSE @]

\* if att.View != "" { ... }: the view an attribute of a media type is
\* rendered with must be a view of the attribute's media type.
AttributeView(verr, att, n, mts, self) ==
    IF verr.t = "panic" \/ att.View = "" THEN verr
    ELSE LET ok == att.Type.k = "media"
             v1 == AddIf(verr, ~ok, self,
                         <<"attribute ", n,
                           " of media type defines a view for rendering but its type is not MediaTypeDefinition">>)
         IN  IF ~ok THEN PanicVerr  \* cmt.Views on the nil cmt
             ELSE AddIf(v1, att.View \notin DOMAIN mts[att.Type.id].Views, self,
                        <<"attribute ", n, " of media type uses unknown view ">>
                        \o GoQuote(att.View))

RECURSIVE MediaAttributesLoop(_, _, _, _, _, _, _)

\* for n, att := range obj { ... }
MediaAttributesLoop(obj, keys, i, verr, mts, self, ord) ==
    IF i > Len(keys) \/ verr.t = "panic" THEN verr
    ELSE LET n == keys[i]
             att == obj[n]
             v1 == MergeIf(verr, ValidateAttribute(att, <<"attribute ", n>>, self,
                                                   self \o <<"field", n>>, ord))
         IN  MediaAttributesLoop(obj, keys, i + 1, AttributeView(v1, att, n, mts, self),
                                 mts, self, ord)

\* if a := m.Type.ToArray(); a != nil { ... }: elemErr is the result of
\* a.ElemType.Validate("array element", m).
ArrayElement(verr, a, elemErr, self) ==
    IF a = NilType THEN verr
    ELSE IF a.ElemType = NilAtt
    THEN AddIf(verr, TRUE, self, <<"array element type is nil">>)
    ELSE MergeIf(verr, elemErr)

\* obj: the object of the array's element if that is valid, m.Type.ToObject()
\* if the type is no array.
MediaObject(m, a, elemErr) ==
    IF a # NilType
    THEN IF a.ElemType # NilAtt /\ elemErr = NilVerr
         THEN ToObject(a.ElemType.Type)
         ELSE NilType
    ELSE ToObject(m.Type)

\* if obj != nil { for n, att := range obj { ... } }
MediaAttributes(verr, obj, mts, self, ord) ==
    IF obj # NilType
    THEN MediaAttributesLoop(obj.f, KeysInOrder(obj.f, ord), 1, verr, mts, self, ord)
    ELSE verr

\* The part of MediaTypeDefinition.Validate after the defaults, given the
\* result elemErr of validating the array element: the array element or
\* the object's attributes, then the views, then the links.
\* m is mts[i], defaults filled.
MediaTypeRest(verr, mts, i, self, ord, elemErr) ==
    LET m == mts[i]
        a == ToArray(m.Type)
        v1 == ArrayElement(verr, a, elemErr, self)
        v2 == MediaAttributes(v1, MediaObject(m, a, elemErr), mts, self, ord)
        views == KeysInOrder(m.Views, ord)
        v3 == MergeAll(v2, [k \in 1 .. Len(views) |->
                               ValidateView(m.Views[views[k]], self \o <<"view", views[k]>>, ord)],
                       1)
        links == KeysInOrder(m.Links, ord)
        v4 == MergeAll(v3, [k \in 1 .. Len(links) |->
                               ValidateLink(m.Links[links[k]], mts,
                                            self \o <<"link", links[k]>>)],
                       1)
    IN  v4

\* The part of MediaTypeDefinition.Validate after the defaults.
MediaTypeBody(verr, mts, i, self, ord) ==
    MediaTypeRest(verr, mts, i, self, ord,
                  ValidateAttribute(ToArray(mts[i].Type).ElemType, <<"array element">>,
                                    self, self \o <<"elem">>, ord))

\* MediaTypeDefinition.Validate after m.UserTypeDefinition.Validate("", m)
\* returned userErr: a panic there leaves the media type as it was.
MediaTypeAfterUserType(userErr, mts, i, self, ord) ==
    LET m == mts[i]
        v1 == MergeIf(NewVerr, userErr)
        v2 == AddIf(v1, m.Identifier # "" /\ ~ParsesAsMediaType(m.Identifier), self,
                    <<"invalid media type identifier: ", "mime: ", m.Identifier>>)
        after == [mts EXCEPT ![i] = DefaultFilled(m)]
    IN  IF userErr.t = "panic"
        THEN [verr |-> userErr, mts |-> mts]
        ELSE [verr |-> Finish(MediaTypeBody(v2, after, i, self, ord)), mts |-> after]

\* func (m *MediaTypeDefinition) Validate() *ValidationErrors, on mts[i]:
\* the result, and the media types afterwards.
ValidateMediaType(mts, i, ord) ==
    MediaTypeAfterUserType(
        ValidateUserType([TypeName |-> mts[i].TypeName,
                          att |-> Attribute(mts[i].Type, mts[i].Validations, "")],
                         <<>>, <<"mediatype", IntStr(i)>>, <<"mediatype", IntStr(i)>>, ord),
        mts, i, <<"mediatype", IntStr(i)>>, ord)

-----------------------------------------------------------------------------
(* APIDefinition.Validate *)

RECURSIVE MediaTypesLoop(_, _, _, _)

\* One turn of the loop over a.MediaTypes: r is the result of mt.Validate()
\* and the media types after it.
MediaTypesTurn(verr, r, i, ord) == MediaTypesLoop(MergeIf(verr, r.verr), r.mts, i + 1, ord)

\* for _, mt := range a.MediaTypes { ... }: the accumulator and the media
\* types after the loop.
MediaTypesLoop(verr, mts, i, ord) ==
    IF i > Len(mts) \/ verr.t = "panic" THEN [verr |-> verr, mts |-> mts]
    ELSE MediaTypesTurn(verr, ValidateMediaType(mts, i, ord), i, ord)

\* The names of Design.Resources.
Registry(a) == {a.Resources[i].Name : i \in 1 .. Len(a.Resources)}

\* The end of APIDefinition.Validate, after the loop over the media types
\* returned w: the user types, then the responses.
APITypesAndResponses(a, w, self, ord) ==
    LET v3 == MergeAll(w.verr, [i \in 1 .. Len(a.Types) |->
                                   ValidateUserType(a.Types[i], <<>>, self,
                                                    <<"type", IntStr(i)>>, ord)], 1)
        v4 == MergeAll(v3, ResponseResults(a.Responses, self, ord), 1)
    IN  [verr |-> Finish(v4), mts |-> w.mts]

\* func (a *APIDefinition) Validate() *ValidationErrors: the result, and the
\* media types afterwards.
ValidateAPI(a, ord) ==
    LET self == <<"api">>
        v1 == MergeIf(NewVerr, ValidateAttribute(a.BaseParams, <<"base parameters">>, self,
                                                 self \o <<"baseparams">>, ord))
        v2 == MergeAll(v1, [i \in 1 .. Len(a.Resources) |->
                               ValidateResource(a.Resources[i], <<"resource", IntStr(i)>>,
                                                Registry(a), ord)], 1)
    IN  APITypesAndResponses(a, MediaTypesLoop(v2, a.MediaTypes, 1, ord), self, ord)

-----------------------------------------------------------------------------
(* ValidationErrors as a state machine: three sets are built with Add, and *)
(* merged in the two groupings.                                            *)

\* Definitions and messages handed to Add.
AddDefs == {<<"resource", "1">>, <<"action", "1">>}

AddMsgs == {<<"Resource name cannot be empty">>, <<"No route defined for action">>}

NotMerged == [t |-> "none"]

VerrInit ==
    /\ vA = NewVerr
    /\ vB = NewVerr
    /\ vC = NewVerr
    /\ mleft = NotMerged
    /\ mright = NotMerged

EntryCount == Len(vA.Errors) + Len(vB.Errors) + Len(vC.Errors)

AddA ==
    \E def \in AddDefs, msg \in AddMsgs :
        /\ EntryCount < MaxEntries
        /\ vA' = Add(vA, def, msg)
        /\ mleft' = NotMerged /\ mright' = NotMerged
        /\ UNCHANGED <<vB, vC>>

AddB ==
    \E def \in AddDefs, msg \in AddMsgs :
        /\ EntryCount < MaxEntries
        /\ vB' = Add(vB, def, msg)
        /\ mleft' = NotMerged /\ mright' = NotMerged
        /\ UNCHANGED <<vA, vC>>

AddC ==
    \E def \in AddDefs, msg \in AddMsgs :
        /\ EntryCount < MaxEntries
        /\ vC' = Add(vC, def, msg)
        /\ mleft' = NotMerged /\ mright' = NotMerged
        /\ UNCHANGED <<vA, vB>>

\* On copies of the three sets: a.Merge(b); a.Merge(c).
MergeLeft ==
    /\ mleft = NotMerged
    /\ mleft' = Merge(Merge(vA, vB), vC)
    /\ UNCHANGED <<vA, vB, vC, mright>>

\* On copies of the three sets: b.Merge(c); a.Merge(b).
MergeRight ==
    /\ mright = NotMerged
    /\ mright' = Merge(vA, Merge(vB, vC))
    /\ UNCHANGED <<vA, vB, vC, mleft>>

VerrNext ==
    \/ AddA /\ UNCHANGED <<errVars, graphVars>>
    \/ AddB /\ UNCHANGED <<errVars, graphVars>>
    \/ AddC /\ UNCHANGED <<errVars, graphVars>>
    \/ MergeLeft /\ UNCHANGED <<errVars, graphVars>>
    \/ MergeRight /\ UNCHANGED <<errVars, graphVars>>

-----------------------------------------------------------------------------
(* The definitions of a design, as the DSL builds them *)

Response(status, headers) == [Status |-> status, Headers |-> headers]

Route(parent) == [Parent |-> parent]

Action(name, routes, responses, params, payload, parent) ==
    [Name |-> name, Routes |-> routes, Responses |-> responses, Params |-> params,
     Payload |-> payload, Parent |-> parent]

Resource(name, basePath, canonical, parentName, baseParams, actions, responses, params) ==
    [Name |-> name, BasePath |-> basePath, CanonicalActionName |-> canonical,
     ParentName |-> parentName, BaseParams |-> baseParams, Actions |-> actions,
     Responses |-> responses, Params |-> params]

UserType(typeName, att) == [TypeName |-> typeName, att |-> att]

View(parent, att) == [Parent |-> parent, att |-> att]

Link(name, view, parent) == [Name |-> name, View |-> view, Parent |-> parent]

MediaType(typeName, type, validations, identifier, views, links) ==
    [TypeName |-> typeName, Type |-> type, Validations |-> validations,
     Identifier |-> identifier, Views |-> views, Links |-> links]

API(baseParams, resources, mediaTypes, types, responses) ==
    [BaseParams |-> baseParams, Resources |-> resources, MediaTypes |-> mediaTypes,
     Types |-> types, Responses |-> responses]

\* A map with the single key k.
One(k, v) == [n \in {k} |-> v]

\* Attributes the designs below are made of.
StrAtt == Attribute(String, <<>>, "")

NilTypeAtt == Attribute(NilType, <<>>, "")

EmptyObj == Attribute(Object(<<>>), <<>>, "")

IdObj == Attribute(Object(One("id", StrAtt)), <<>>, "")

\* An object two levels deep whose inner field has no type.
NestedBadObj == Attribute(Object(One("id", Attribute(Object(One("x", NilTypeAtt)), <<>>, ""))),
                          <<>>, "")

\* An object that requires a field it does not have.
RequiredMissingObj == Attribute(Object(One("id", StrAtt)), <<Required(<<"x">>)>>, "")

\* An object one of whose field pointers is nil.
NilFieldObj == Attribute(Object(One("id", NilAtt)), <<>>, "")

\* An object with the fields names, all strings.
StrObj(names) == Attribute(Object([n \in names |-> StrAtt]), <<>>, "")

\* A valid action named name of the resource at path parent.
GoodAction(name, parent) ==
    Action(name, <<Route(parent \o <<"action", "1">>)>>, <<Response(200, NilAtt)>>,
           NilAtt, NilAtt, parent)

\* A valid resource named name.
GoodResource(name) ==
    Resource(name, <<Lit(name)>>, "", "", NilAtt, <<>>, <<>>, NilAtt)

\* A valid media type with the view "default", the target of links and views.
TargetMediaType(self) ==
    MediaType("Account", Object(One("id", StrAtt)), <<>>, "application/json",
              One("default", View(self, IdObj)), <<>>)

-----------------------------------------------------------------------------
(* The validator as a state machine: a design is given, and its Validate   *)
(* methods are called.                                                     *)

NoRes == [op |-> "none", i |-> 0, j |-> 0, key |-> "", verr |-> NilVerr]

Result(op, i, j, key, verr) == [op |-> op, i |-> i, j |-> j, key |-> key, verr |-> verr]

\* No design: the state of the validator in the specifications of the error model.
GraphIdle ==
    /\ api = API(NilAtt, <<>>, <<>>, <<>>, <<>>)
    /\ res = NoRes
    /\ verdicts = <<>>

\* api.Validate()
ValidateAPIStep ==
    \E ord \in Orders :
        \E r \in {ValidateAPI(api, ord)} :
            /\ api' = [api EXCEPT !.MediaTypes = r.mts]
            /\ res' = Result("API", 0, 0, "", r.verr)
            /\ UNCHANGED verdicts

\* api.Resources[i].Validate()
ValidateResourceStep ==
    \E i \in 1 .. Len(api.Resources), ord \in Orders :
        /\ res' = Result("Resource", i, 0, "",
                         ValidateResource(api.Resources[i], <<"resource", IntStr(i)>>,
                                          Registry(api), ord))
        /\ UNCHANGED <<api, verdicts>>

\* api.Resources[i].Actions[j].Validate()
ValidateActionStep ==
    \E i \in 1 .. Len(api.Resources), ord \in Orders :
        \E j \in 1 .. Len(api.Resources[i].Actions) :
            /\ res' = Result("Action", i, j, "",
                             ValidateAction(api.Resources[i].Actions[j],
                                            Child(<<"resource", IntStr(i)>>, "action", j), ord))
            /\ UNCHANGED <<api, verdicts>>

\* api.Resources[i].Actions[j].ValidateParams()
ValidateParamsStep ==
    \E i \in 1 .. Len(api.Resources), ord \in Orders :
        \E j \in 1 .. Len(api.Resources[i].Actions) :
            /\ res' = Result("Params", i, j, "",
                             ValidateParams(api.Resources[i].Actions[j],
                                            Child(<<"resource", IntStr(i)>>, "action", j), ord))
            /\ UNCHANGED <<api, verdicts>>

\* api.Resources[i].Actions[j].Routes[k].Validate()
ValidateRouteStep ==
    \E i \in 1 .. Len(api.Resources) :
        \E j \in 1 .. Len(api.Resources[i].Actions) :
            \E k \in 1 .. Len(api.Resources[i].Actions[j].Routes) :
                /\ res' = Result("Route", i, j, IntStr(k),
                                 ValidateRoute(api.Resources[i].Actions[j].Routes[k],
                                     Child(Child(<<"resource", IntStr(i)>>, "action", j),
                                           "route", k)))
                /\ UNCHANGED <<api, verdicts>>

\* api.MediaTypes[i].Validate(): the one call that writes to the design.
ValidateMediaTypeStep ==
    \E i \in 1 .. Len(api.MediaTypes), ord \in Orders :
        \E r \in {ValidateMediaType(api.MediaTypes, i, ord)} :
            /\ Len(verdicts[i]) < MaxRuns
            /\ api' = [api EXCEPT !.MediaTypes = r.mts]
            /\ res' = Result("MediaType", i, 0, "", r.verr)
            /\ verdicts' = [verdicts EXCEPT
                               ![i] = Append(@, [before |-> api.MediaTypes[i],
                                                 verr |-> r.verr])]

\* api.MediaTypes[i].Links[key].Validate()
ValidateLinkStep ==
    \E i \in 1 .. Len(api.MediaTypes) :
        \E key \in DOMAIN api.MediaTypes[i].Links :
            /\ res' = Result("Link", i, 0, key,
                             ValidateLink(api.MediaTypes[i].Links[key], api.MediaTypes,
                                          <<"mediatype", IntStr(i), "link", key>>))
            /\ UNCHANGED <<api, verdicts>>

-----------------------------------------------------------------------------
(* Designs of one resource: its base path and base parameters, its names   *)
(* and what it owns.                                                       *)

ResourcePath == <<"resource", "1">>

BasePaths ==
    {<<Lit("things")>>,
     <<Lit("things"), Var("id")>>,
     <<Var("x"), Lit("things"), Var("id")>>,
     <<Lit("things"), Var("id"), Var("x")>>}

BaseParamsOptions == {NilAtt, StrAtt} \cup {StrObj(names) : names \in SUBSET {"id", "x"}}

ResourceActions ==
    {<<>>,
     <<GoodAction("show", ResourcePath)>>,
     <<GoodAction("", ResourcePath)>>}

ResourceDesigns ==
    {Resource(name, path, canonical, parentName, baseParams, actions, responses, params) :
        name \in {"", "things"},
        path \in BasePaths,
        canonical \in {"", "show", "list"},
        parentName \in {"", "accounts", "ghosts"},
        baseParams \in BaseParamsOptions,
        actions \in ResourceActions,
        responses \in {<<>>, <<Response(0, NilAtt)>>},
        params \in {NilAtt, RequiredMissingObj}}

GraphInitRes ==
    /\ api \in {API(EmptyObj, <<r, GoodResource("accounts")>>, <<>>, <<>>, <<>>) :
                  r \in ResourceDesigns}
    /\ res = NoRes
    /\ verdicts = <<>>

ResNext ==
    \/ ValidateResourceStep /\ UNCHANGED <<errVars, verrVars>>
    \/ ValidateActionStep /\ UNCHANGED <<errVars, verrVars>>

-----------------------------------------------------------------------------
(* Designs of one action: its responses, routes, parameters and payload *)

ActionPath == <<"resource", "1", "action", "1">>

ResponseOptions ==
    {Response(200, NilAtt), Response(404, NilAtt), Response(0, NilAtt),
     Response(200, NilTypeAtt)}

ResponseLists == UNION {[1 .. n -> ResponseOptions] : n \in 0 .. MaxResponses}

\* Action parameters: none, a string named id, a parameter with no
\* definition, a parameter that is an object, and parameters that are no object.
ParamsOptions ==
    {NilAtt, IdObj, NilFieldObj, Attribute(Object(One("x", EmptyObj)), <<>>, ""), StrAtt}

ActionDesigns ==
    {Action(name, routes, responses, params, payload, parent) :
        name \in {"", "show"},
        routes \in {<<>>, <<Route(ActionPath)>>, <<Route(NilRef)>>},
        responses \in ResponseLists,
        params \in ParamsOptions,
        payload \in {NilAtt, NestedBadObj},
        parent \in {NilRef, ResourcePath}}

GraphInitAct ==
    /\ api \in {API(EmptyObj,
                     <<Resource("things", <<Lit("things")>>, "", "", NilAtt, <<a>>, <<>>, NilAtt)>>,
                     <<>>, <<>>, <<>>) :
                  a \in ActionDesigns}
    /\ res = NoRes
    /\ verdicts = <<>>

ActNext ==
    \/ ValidateActionStep /\ UNCHANGED <<errVars, verrVars>>
    \/ ValidateParamsStep /\ UNCHANGED <<errVars, verrVars>>
    \/ ValidateRouteStep /\ UNCHANGED <<errVars, verrVars>>

-----------------------------------------------------------------------------
(* Designs of media types: media type 1 is the one under test, media type  *)
(* 2 the target of its links and views.                                    *)

MediaPath(i) == <<"mediatype", IntStr(i)>>

\* An attribute of type media type 2, rendered with view.
AccountAtt(view) == Attribute(MediaRef(2), <<>>, view)

MediaTypeTypes ==
    {NilType, String,
     Object(One("owner", AccountAtt(""))),
     Object(One("owner", AccountAtt("default"))),
     Object(One("owner", AccountAtt("tiny"))),
     Object(One("owner", Attribute(String, <<>>, "default"))),
     Object([n \in {"id", "owner"} |-> IF n = "id" THEN NilTypeAtt ELSE StrAtt]),
     Object(One("id", NilAtt)),
     Array(NilAtt),
     Array(IdObj),
     Array(NilTypeAtt)}

MediaTypeViews ==
    {<<>>,
     One("default", View(MediaPath(1), IdObj)),
     One("default", View(NilRef, NilTypeAtt))}

MediaTypeLinks ==
    {<<>>,
     One("owner", Link("owner", "default", 1)),
     One("owner", Link("owner", "tiny", 1)),
     One("owner", Link("owner", "default", 0)),
     One("owner", Link("id", "default", 1))}

MediaTypeDesigns ==
    {MediaType(typeName, type, validations, identifier, views, links) :
        typeName \in {"", "Bottle"},
        type \in MediaTypeTypes,
        validations \in {<<>>, <<Required(<<"id">>)>>},
        identifier \in {"", "application/json", "application json"},
        views \in MediaTypeViews,
        links \in MediaTypeLinks}

GraphInitMT ==
    /\ api \in {API(EmptyObj, <<>>, <<m, TargetMediaType(MediaPath(2))>>, <<>>, <<>>) :
                  m \in MediaTypeDesigns}
    /\ res = NoRes
    /\ verdicts = <<<<>>, <<>>>>

MTNext ==
    \/ ValidateMediaTypeStep /\ UNCHANGED <<errVars, verrVars>>
    \/ ValidateLinkStep /\ UNCHANGED <<errVars, verrVars>>

-----------------------------------------------------------------------------
(* Designs of a whole API: one resource with one action, two media types,  *)
(* user types and responses, each valid or with one defect.                *)

\* The action "show" with these routes, parameters and payload.
ShowAction(routes, params, payload) ==
    Action("show", routes, <<Response(200, NilAtt)>>, params, payload, ResourcePath)

APIActions ==
    {ShowAction(<<Route(ActionPath)>>, NilAtt, NilAtt),
     ShowAction(<<Route(NilRef)>>, NilAtt, NilAtt),
     ShowAction(<<Route(ActionPath)>>, NilFieldObj, NilAtt),
     ShowAction(<<Route(ActionPath)>>, Attribute(Object(One("id", NilTypeAtt)), <<>>, ""), NilAtt),
     ShowAction(<<Route(ActionPath)>>, IdObj, NestedBadObj)}

APIResources ==
    {Resource("things", <<Lit("things")>>, names[1], names[2], NilAtt, <<a>>, <<>>, NilAtt) :
        names \in {<<"show", "">>, <<"list", "ghosts">>},
        a \in APIActions}

\* Media type 1 with this type, views and links.
Bottle(type, views, links) == MediaType("Bottle", type, <<>>, "application/json", views, links)

APIMediaTypes ==
    {Bottle(Object(One("owner", AccountAtt("default"))),
            One("default", View(MediaPath(1), IdObj)),
            One("owner", Link("owner", "default", 1))),
     MediaType("Bottle", NilType, <<>>, "", <<>>, <<>>),
     Bottle(Object(One("owner", Attribute(String, <<>>, "default"))), <<>>, <<>>),
     Bottle(Object(One("owner", AccountAtt("tiny"))), <<>>, <<>>),
     Bottle(Object(One("owner", AccountAtt(""))), <<>>, One("owner", Link("owner", "default", 0))),
     Bottle(Object(One("owner", AccountAtt(""))), <<>>, One("owner", Link("id", "default", 1))),
     Bottle(Object(One("owner", StrAtt)), <<>>, One("owner", Link("owner", "default", 1))),
     Bottle(String, One("default", View(NilRef, IdObj)), One("owner", Link("", "default", 1)))}

APIDesigns ==
    {API(baseParams, <<r>>, <<m, TargetMediaType(MediaPath(2))>>, types, responses) :
        baseParams \in {NilAtt, EmptyObj},
        r \in APIResources,
        m \in APIMediaTypes,
        types \in {<<>>, <<UserType("", IdObj)>>},
        responses \in {<<>>, <<Response(0, NilAtt)>>}}

GraphInitAPI ==
    /\ api \in APIDesigns
    /\ res = NoRes
    /\ verdicts = <<<<>>, <<>>>>

APINext ==
    \/ ValidateAPIStep /\ UNCHANGED <<errVars, verrVars>>
    \/ ValidateResourceStep /\ UNCHANGED <<errVars, verrVars>>
    \/ ValidateActionStep /\ UNCHANGED <<errVars, verrVars>>
    \/ ValidateParamsStep /\ UNCHANGED <<errVars, verrVars>>
    \/ ValidateRouteStep /\ UNCHANGED <<errVars, verrVars>>
    \/ ValidateMediaTypeStep /\ UNCHANGED <<errVars, verrVars>>
    \/ ValidateLinkStep /\ UNCHANGED <<errVars, verrVars>>

-----------------------------------------------------------------------------
(* Specifications *)

\* No caller: the state of the error model in the other specifications.
ErrIdle ==
    /\ merr = NilErr
    /\ hist = <<>>
    /\ calls = 0
    /\ out = NoOut

InitErr == ErrInit /\ VerrInit /\ GraphIdle

SpecErr == InitErr /\ [][ErrNext]_vars

InitVerr == ErrIdle /\ VerrInit /\ GraphIdle

SpecVerr == InitVerr /\ [][VerrNext]_vars

InitRes == ErrIdle /\ VerrInit /\ GraphInitRes

SpecRes == InitRes /\ [][ResNext]_vars

InitAct == ErrIdle /\ VerrInit /\ GraphInitAct

SpecAct == InitAct /\ [][ActNext]_vars

InitMT == ErrIdle /\ VerrInit /\ GraphInitMT

SpecMT == InitMT /\ [][MTNext]_vars

InitAPI == ErrIdle /\ VerrInit /\ GraphInitAPI

SpecAPI == InitAPI /\ [][APINext]_vars

-----------------------------------------------------------------------------
(* Claims about src/error.go *)

\* C1: ReportError returns a MultiError holding the elements accumulated so
\* far, in order and unchanged, followed by the new failure: after k calls the
\* value is the flat MultiError of everything reported, in call order, after
\* the single failure the caller started from (if any), and none of its
\* elements is itself a MultiError.
C1_ReportErrorAppends ==
    /\ calls = 0 => Elems(merr) = hist
    /\ calls > 0 =>
        /\ merr.t = "multi"
        /\ merr.elems = hist
        /\ \A i \in 1 .. Len(merr.elems) : merr.elems[i].t # "multi"

\* Two calls made on a caller's own single failure: the two-element coercion
\* and then the append to a MultiError.
C1_Witness ==
    /\ calls = 2
    /\ Len(hist) = 3
    /\ merr = MultiError(hist)

\* C2: each of the ten kinds has a title, so a title lookup of a kind of the
\* taxonomy never panics, and neither does serializing an error value built
\* by the construction helpers.
C2_EveryKindHasTitle ==
    /\ (out.op = "Title" /\ out.kind \in Taxonomy) => ~out.panic
    /\ out.op = "Error" => ~out.panic

-----------------------------------------------------------------------------
(* Claims about ValidationErrors *)

\* C10: Merge concatenates in order, keeping each failure paired with its own
\* definition and the two lists equally long, and the two groupings of two
\* merges give the same entries.
C10_MergeConcatAssoc ==
    /\ mleft # NotMerged =>
        /\ Len(mleft.Errors) = Len(mleft.Definitions)
        /\ Entries(mleft) = Entries(vA) \o Entries(vB) \o Entries(vC)
    /\ mright # NotMerged =>
        /\ Len(mright.Errors) = Len(mright.Definitions)
        /\ Entries(mright) = Entries(vA) \o Entries(vB) \o Entries(vC)
    /\ (mleft # NotMerged /\ mright # NotMerged) => mleft = mright

\* Both groupings merged, with entries in every set and two owners.
C10_Witness ==
    /\ mleft # NotMerged /\ mright # NotMerged
    /\ Len(vA.Errors) > 0 /\ Len(vB.Errors) > 1 /\ Len(vC.Errors) > 0
    /\ vB.Definitions[1] # vB.Definitions[2]

-----------------------------------------------------------------------------
(* Claims about ResourceDefinition.Validate *)

\* The resource the last call validated, and its path.
LastResource == api.Resources[res.i]

LastResourcePath == <<"resource", IntStr(res.i)>>

\* The names of the variables of a base path.
PathVariables(path) == {path[i].s : i \in {k \in 1 .. Len(path) : path[k].var}}

NumVariables(path) == Cardinality({k \in 1 .. Len(path) : path[k].var})

\* Without its base parameters the resource validates with no failure.
OtherwiseValid(r, self) ==
    \A ord \in Orders :
        ValidateResource([r EXCEPT !.BaseParams = NilAtt], self, Registry(api), ord) = NilVerr

\* The set has an entry with this failure, owned by def.
HasEntry(verr, def, msg) ==
    /\ verr.t = "verr"
    /\ \E k \in 1 .. Len(verr.Errors) : verr.Errors[k] = msg /\ verr.Definitions[k] = def

\* C5: an otherwise valid resource whose base path has exactly one variable
\* and whose base parameters are an object with no fields gets exactly one
\* failure, the unmatched variable; and every base path variable that names
\* no field of the base parameters object is reported.
C5_UnmatchedVariableReported ==
    (/\ res.op = "Resource"
     /\ LastResource.BaseParams # NilAtt
     /\ LastResource.BaseParams.Type.k = "object"
     /\ OtherwiseValid(LastResource, LastResourcePath))
    => /\ (/\ NumVariables(LastResource.BasePath) = 1
           /\ DOMAIN LastResource.BaseParams.Type.f = {})
          => \E v \in PathVariables(LastResource.BasePath) :
                 res.verr = Add(NewVerr, LastResourcePath,
                                UnmatchedMsg(v, LastResource.BasePath))
       /\ \A v \in PathVariables(LastResource.BasePath) :
              v \notin DOMAIN LastResource.BaseParams.Type.f
              => HasEntry(res.verr, LastResourcePath, UnmatchedMsg(v, LastResource.BasePath))

\* C6: an otherwise valid resource whose base path has no variable and whose
\* base parameters are an object with at least one field gets exactly one
\* failure, the unused base parameters, however many fields there are.
C6_UnusedBaseParamsOnce ==
    (/\ res.op = "Resource"
     /\ LastResource.BaseParams # NilAtt
     /\ LastResource.BaseParams.Type.k = "object"
     /\ DOMAIN LastResource.BaseParams.Type.f # {}
     /\ NumVariables(LastResource.BasePath) = 0
     /\ OtherwiseValid(LastResource, LastResourcePath))
    => res.verr = Add(NewVerr, LastResourcePath, UnusedMsg)

\* A valid resource at /things with two base parameters, validated.
C6_Witness ==
    /\ res.op = "Resource"
    /\ res.i = 1
    /\ LastResource.BaseParams = StrObj({"id", "x"})
    /\ NumVariables(LastResource.BasePath) = 0
    /\ OtherwiseValid(LastResource, LastResourcePath)
    /\ res.verr.t = "verr"
    /\ Len(res.verr.Errors) = 1

-----------------------------------------------------------------------------
(* Claims about ActionDefinition.Validate *)

\* The action the last call validated, and its path.
LastAction == api.Resources[res.i].Actions[res.j]

LastActionPath == Child(<<"resource", IntStr(res.i)>>, "action", res.j)

\* The number of entries of the set with this failure, owned by def.
CountEntries(verr, def, msg) ==
    IF verr.t # "verr" THEN 0
    ELSE Cardinality({k \in 1 .. Len(verr.Errors) :
                         verr.Errors[k] = msg /\ verr.Definitions[k] = def})

\* The responses other than the i-th that have its status code.
SameStatus(responses, i) ==
    {j \in 1 .. Len(responses) : j # i /\ responses[j].Status = responses[i].Status}

\* C7: when ActionDefinition.Validate returns, its result holds, for each
\* response i, one duplicate-status failure owned by response i and naming
\* its status code for each other response with the same status code: one
\* for every ordered pair of distinct indices with equal status codes, none
\* when the status codes are all distinct.
C7_DuplicateStatusPerOrderedPair ==
    (res.op = "Action" /\ res.verr.t # "panic")
    => \A i \in 1 .. Len(LastAction.Responses) :
           CountEntries(res.verr, Child(LastActionPath, "response", i),
                        DuplicateMsg(LastAction.Responses[i].Status))
           = Cardinality(SameStatus(LastAction.Responses, i))

\* Three responses with status 200: each owns two duplicate-status failures.
C7_Witness ==
    /\ res.op = "Action"
    /\ res.verr.t = "verr"
    /\ Len(LastAction.Responses) = 3
    /\ \A i \in 1 .. 3 :
           /\ LastAction.Responses[i].Status = 200
           /\ CountEntries(res.verr, Child(LastActionPath, "response", i),
                           DuplicateMsg(200)) = 2

-----------------------------------------------------------------------------
(* Claims about MediaTypeDefinition.Validate *)

\* Media type i as its k-th Validate call left it.
AfterRun(i, k) ==
    IF k < Len(verdicts[i]) THEN verdicts[i][k + 1].before ELSE api.MediaTypes[i]

\* C8: Validate on a media type with an empty identifier and no type leaves
\* it with the identifier "plain/text" and the type String; a second Validate
\* changes neither field; and an identifier that is not empty, or a type
\* that is set, is never changed.
C8_DefaultingIdempotent ==
    \A i \in DOMAIN verdicts :
        \A k \in 1 .. Len(verdicts[i]) :
            LET b == verdicts[i][k].before
                a == AfterRun(i, k)
            IN  /\ (b.Identifier = "" /\ b.Type = NilType)
                   => (a.Identifier = "plain/text" /\ a.Type = String)
                /\ b.Identifier # "" => a.Identifier = b.Identifier
                /\ b.Type # NilType => a.Type = b.Type
                /\ k >= 2 => (a.Identifier = b.Identifier /\ a.Type = b.Type)

\* Media type 1 had neither identifier nor type and was validated twice.
C8_Witness ==
    /\ DOMAIN verdicts = {1, 2}
    /\ Len(verdicts[1]) = 2
    /\ verdicts[1][1].before.Identifier = ""
    /\ verdicts[1][1].before.Type = NilType
    /\ api.MediaTypes[1].Identifier = "plain/text"
    /\ api.MediaTypes[1].Type = String

\* C9: the defaults are filled before anything reads the identifier or the
\* type, so a media type with no type gets no failure about a nil type, and
\* its second validation returns what the first returned.
C9_DefaultsBeforeChecks ==
    \A i \in DOMAIN verdicts :
        (Len(verdicts[i]) >= 1 /\ verdicts[i][1].before.Type = NilType)
        => /\ CountEntries(verdicts[i][1].verr, MediaPath(i), <<"attribute type is nil">>) = 0
           /\ Len(verdicts[i]) >= 2 => verdicts[i][2].verr = verdicts[i][1].verr

-----------------------------------------------------------------------------
(* Claims about the walk of the whole design *)

\* The failures the invariants of the entities of the design call for, each
\* with the definition that owns it: those of the resources, their actions,
\* routes and responses, the user types, the views and the links.
When(cond, entry) == IF cond THEN {entry} ELSE {}

ActionViolations(a, self) ==
    When(a.Name = "", <<self, <<"Action name cannot be empty">>>>)
    \cup When(Len(a.Routes) = 0, <<self, <<"No route defined for action">>>>)
    \cup When(a.Parent = NilRef, <<self, <<"missing parent resource">>>>)
    \cup {<<Child(self, "route", k), <<"missing route parent action">>>> :
              k \in {y \in 1 .. Len(a.Routes) : a.Routes[y].Parent = NilRef}}
    \cup {<<Child(self, "response", k), <<"response status not defined">>>> :
              k \in {y \in 1 .. Len(a.Responses) : a.Responses[y].Status = 0}}

\* The failures of the names of a resource that do not resolve: its canonical
\* action and its parent.
UnresolvedNames(r, self) ==
    When(/\ r.CanonicalActionName # ""
         /\ \A j \in 1 .. Len(r.Actions) : r.Actions[j].Name # r.CanonicalActionName,
         <<self, <<"unknown canonical action \"", r.CanonicalActionName, "\"">>>>)
    \cup When(r.ParentName # "" /\ r.ParentName \notin Registry(api),
              <<self, <<"Parent resource named ">> \o GoQuote(r.ParentName)
                      \o <<" not found">>>>)

ResourceViolations(r, self) ==
    When(r.Name = "", <<self, <<"Resource name cannot be empty">>>>)
    \cup UnresolvedNames(r, self)
    \cup {<<Child(self, "response", k), <<"response status not defined">>>> :
              k \in {y \in 1 .. Len(r.Responses) : r.Responses[y].Status = 0}}
    \cup UNION {ActionViolations(r.Actions[j], Child(self, "action", j)) :
                   j \in 1 .. Len(r.Actions)}

MediaTypeViolations(m, self) ==
    {<<self \o <<"view", n>>, <<"View must have a parent media type">>>> :
        n \in {y \in DOMAIN m.Views : m.Views[y].Parent = NilRef}}
    \cup {<<self \o <<"link", n>>, <<"Links must have a name">>>> :
              n \in {y \in DOMAIN m.Links : m.Links[y].Name = ""}}

DesignViolations ==
    UNION {ResourceViolations(api.Resources[i], <<"resource", IntStr(i)>>) :
              i \in 1 .. Len(api.Resources)}
    \cup UNION {MediaTypeViolations(api.MediaTypes[i], MediaPath(i)) :
                   i \in 1 .. Len(api.MediaTypes)}
    \cup UNION {When(api.Types[y].TypeName = "",
                     <<(<<"api">>), <<" - ", "User type must have a name">>>>) :
                   y \in 1 .. Len(api.Types)}
    \cup {<<Child(<<"api">>, "response", k), <<"response status not defined">>>> :
              k \in {y \in 1 .. Len(api.Responses) : api.Responses[y].Status = 0}}

\* C3: what APIDefinition.Validate returns holds an entry for every
\* violation of every entity it owns, routes included, and it returns nil
\* only when there is none.
C3_NoViolationSwallowed ==
    (res.op = "API" /\ res.verr.t # "panic")
    => \A e \in DesignViolations : HasEntry(res.verr, e[1], e[2])

\* The link and the action of the last call.
LastLink == api.MediaTypes[res.i].Links[res.key]

LastLinkPath == MediaPath(res.i) \o <<"link", res.key>>

\* The fields of the object a media type is, none if it is no object.
ObjectFields(type) == IF type.k = "object" THEN type.f ELSE <<>>

\* C4: an unresolved or ill-typed cross-reference is recorded and the
\* validator returns a ValidationErrors value: a link with no parent, a link
\* that names no attribute of its parent, a link to an attribute that is no
\* media type, a view set on an attribute that is no media type, an action
\* parameter with no definition or no type, a resource whose parent or
\* canonical action does not resolve.
C4_CrossReferencesRecorded ==
    /\ (res.op = "Link" /\ LastLink.Parent = 0)
       => HasEntry(res.verr, LastLinkPath, <<"Link must have a parent media type">>)
    /\ (res.op = "Link" /\ LastLink.Parent # 0)
       => LET fields == ObjectFields(api.MediaTypes[LastLink.Parent].Type)
          IN  /\ (api.MediaTypes[LastLink.Parent].Type.k = "object"
                  /\ LastLink.Name \notin DOMAIN fields)
                 => HasEntry(res.verr, LastLinkPath,
                        <<"Link name must match one of the parent media type attribute names">>)
              /\ (/\ LastLink.Name \in DOMAIN fields
                  /\ fields[LastLink.Name] # NilAtt
                  /\ fields[LastLink.Name].Type.k # "media")
                 => HasEntry(res.verr, LastLinkPath, <<"attribute type must be a media type">>)
    /\ res.op = "MediaType"
       => LET fields == ObjectFields(api.MediaTypes[res.i].Type)
          IN  \A n \in DOMAIN fields :
                  (/\ fields[n] # NilAtt
                   /\ fields[n].View # ""
                   /\ fields[n].Type.k # "media")
                  => HasEntry(res.verr, MediaPath(res.i),
                         <<"attribute ", n,
                           " of media type defines a view for rendering but its type is not MediaTypeDefinition">>)
    /\ (res.op = "Params" /\ LastAction.Params # NilAtt)
       => LET fields == ObjectFields(LastAction.Params.Type)
          IN  \A n \in DOMAIN fields \ {""} :
                  /\ fields[n] = NilAtt
                     => HasEntry(res.verr, LastActionPath,
                                 <<"definition of parameter ", n, " cannot be nil">>)
                  /\ (fields[n] # NilAtt /\ fields[n].Type = NilType)
                     => HasEntry(res.verr, LastActionPath,
                                 <<"type of parameter ", n, " cannot be nil">>)
    /\ res.op = "Resource"
       => \A e \in UnresolvedNames(LastResource, LastResourcePath) :
              HasEntry(res.verr, e[1], e[2])


-----------------------------------------------------------------------------
(* Claims about termination of the walk *)

RECURSIVE MediaRefs(_)

\* The media types a type contains: those of its fields, of its element and
\* the one it is.
MediaRefs(type) ==
    CASE type.k = "media" -> {type.id}
      [] type.k = "object" ->
             UNION {IF type.f[n] = NilAtt THEN {} ELSE MediaRefs(type.f[n].Type) :
                       n \in DOMAIN type.f}
      [] type.k = "array" ->
             IF type.ElemType = NilAtt THEN {} ELSE MediaRefs(type.ElemType.Type)
      [] OTHER -> {}

\* The media types media type i contains directly: through its type and
\* through the attributes of its views.
Contained(i) ==
    MediaRefs(api.MediaTypes[i].Type)
    \cup UNION {MediaRefs(api.MediaTypes[i].Views[n].att.Type) :
                   n \in DOMAIN api.MediaTypes[i].Views}

RECURSIVE ContainedWithin(_, _)

\* The media types reached from those of from in at most n steps of Contained.
ContainedWithin(from, n) ==
    IF n = 0 THEN from
    ELSE ContainedWithin(from \cup UNION {Contained(i) : i \in from}, n - 1)

\* No media type contains itself, directly or through others.  Objects and
\* arrays are values of the model and cannot contain themselves.
AcyclicDesign ==
    \A i \in 1 .. Len(api.MediaTypes) :
        i \notin ContainedWithin(Contained(i), Len(api.MediaTypes))

\* C11: on an acyclic design the pass started at APIDefinition.Validate
\* ends with the root returning a verdict: nil or a ValidationErrors set.
C11_PassReturnsVerdict ==
    (res.op = "API" /\ AcyclicDesign) => res.verr.t \in {"nil", "verr"}

=============================================================================
